---- MODULE Spec2Model ----
(* A recognizer session of src/src/kaldi_recognizer.cc as a state machine.   *)
(* One session is modelled together with the reference counts of the Model  *)
(* and SpkModel assets it borrows.  The feature pipeline, the decoder, the   *)
(* silence tracker and the speaker feature extractor are opaque engines:    *)
(* the model keeps whether each is allocated and the counts the session      *)
(* reads from them (frames decoded, samples fed).                            *)
EXTENDS Integers, Sequences, FiniteSets, TLC

(***************************************************************************)
(* Bounds of the exploration                                               *)
(***************************************************************************)
MaxAccepts == 2        \* AcceptWaveform calls per session
MaxAlternatives == 2   \* largest value passed to SetMaxAlternatives
MaxPaths == 2          \* largest number of paths in a lattice
MaxRef == 2            \* references one session takes on speaker models
MaxStreamAccepts == 3  \* AcceptWaveform calls of a streaming session

(***************************************************************************)
(* Program constants                                                       *)
(***************************************************************************)
FrameCeiling == 20000
MIN_SPK_FEATS == 50
FrameSubsampling == 3

SampleRates == {16000}
\* Sample rates of the sessions whose chunking loop is followed step by
\* step: the constructors take any rate, 4 Hz is one whose chunk length,
\* int(4 * 0.2), is 0.
ChunkRates == {16000, 4}
ChunkLens == {0, 1, 24000}
WaveLens == {0, 24000, 9600000, 9600480}

INITIALIZED == "RECOGNIZER_INITIALIZED"
RUNNING == "RECOGNIZER_RUNNING"
ENDPOINT == "RECOGNIZER_ENDPOINT"
FINALIZED == "RECOGNIZER_FINALIZED"
States == {INITIALIZED, RUNNING, ENDPOINT, FINALIZED}

NoSpk == "nullptr"
SpkModels == {"spk"}

\* Shapes of SpkModel::transform against the raw embedding dimension: as many
\* columns ("linear"), one more ("affine"), any other count ("mismatch").
LinearShapes == {"linear"}
TransformShapes == {"linear", "affine", "mismatch"}

\* No call of AcceptWaveform is under way.
Idle == [at |-> "idle", i |-> 0, dim |-> 0]

\* Speaker ids, and what a SpkModel can hold of them: the ids enrolled
\* (num_utts) and the ids with a stored prototype embedding (train_ivectors).
Speakers == {"alice", "bob"}
Enrolments == [num_utts : SUBSET Speakers, train_ivectors : SUBSET Speakers]
Enrolled == [num_utts |-> Speakers, train_ivectors |-> Speakers]

VARIABLES
    state_, frame_offset_, samples_processed_, samples_round_start_,
    sample_frequency_, max_alternatives_, words_, spk_model_,
    decoder_, feature_pipeline_, silence_weighting_, spk_feature_,
    last_result_,
    spk_transform,        \* shape of the transform of the speaker models
    spk_enrolment,        \* speakers enrolled in the speaker models
    scores_,              \* scores of the enrolled speakers, by speaker id
    pc,                   \* where a call of AcceptWaveform has got to
    model_,               \* which graphs the Model holds (non-null pointers)
    decode_fst_,          \* whether the session composed a graph of its own
    model_ref, spk_ref,   \* references sessions hold on the shared assets
    status,               \* "alive", "destroyed" (destructor ran), "aborted"
    accepts,              \* AcceptWaveform calls so far
    wave,                 \* samples and chunks fed since the last recycle
    op, ret               \* the last call and what it returned

vars == <<state_, frame_offset_, samples_processed_, samples_round_start_,
          sample_frequency_, max_alternatives_, words_, spk_model_,
          decoder_, feature_pipeline_, silence_weighting_, spk_feature_,
          last_result_, spk_transform, spk_enrolment, scores_, pc,
          model_, decode_fst_, model_ref, spk_ref, status, accepts, wave,
          op, ret>>

Max(a, b) == IF a >= b THEN a ELSE b
Min(a, b) == IF a <= b THEN a ELSE b

(***************************************************************************)
(* Engines                                                                 *)
(***************************************************************************)
\* The graph a decoder is built on: the precomputed graph of the Model when
\* it has one, the graph composed for the session otherwise; "null" when
\* neither exists and the constructor of the decoder is handed *decode_fst_
\* of a null decode_fst_.
DecodeGraph(model, fst) ==
    IF model.hclg_fst_ THEN "hclg_fst_"
    ELSE IF fst THEN "decode_fst_"
    ELSE "null"

NullDecoder == [live |-> FALSE, frames |-> 0, fst |-> "none"]
NewDecoder ==
    [live |-> TRUE, frames |-> 0, fst |-> DecodeGraph(model_, decode_fst_)]
NullPipeline == [live |-> FALSE, samples |-> 0]
NewPipeline == [live |-> TRUE, samples |-> 0]
NullSpkFeature == [live |-> FALSE, samples |-> 0]
NewSpkFeature == [live |-> TRUE, samples |-> 0]

\* 10 ms feature frames in s samples at rate sf.
FeatFramesReady(s, sf) == s \div (sf \div 100)

\* Frames the decoder can have decoded: one per FrameSubsampling feature
\* frames of the pipeline, counted from the frame InitDecoding started at.
DecodableFrames(s, sf, offset) ==
    Max(0, (FeatFramesReady(s, sf) \div FrameSubsampling) - offset)

\* NumFramesDecoded after AdvanceDecoding: the engine decodes every frame
\* that is ready.
AdvanceDecoding(frames, ready) == Max(frames, ready)

(***************************************************************************)
(* Chunking of one AcceptWaveform buffer                                   *)
(***************************************************************************)
Step(sf) == (sf * 2) \div 10

\* Chunk lengths as runs <<length, count>>.
AppendRun(runs, len, cnt) ==
    IF cnt = 0 THEN runs
    ELSE IF Len(runs) > 0 /\ runs[Len(runs)][1] = len
         THEN [runs EXCEPT ![Len(runs)] = <<len, runs[Len(runs)][2] + cnt>>]
         ELSE Append(runs, <<len, cnt>>)

\* Mutant: the samples after the last whole chunk are not fed.
FeedChunks_DropsRemainder(runs, n, step) ==
    AppendRun(runs, step, n \div step)

\* The chunks the loop of AcceptWaveform hands to the pipeline for n samples.
FeedChunks(runs, n, step) ==
    AppendRun(AppendRun(runs, step, n \div step),
              n % step, IF n % step = 0 THEN 0 ELSE 1)

\* Iterations of the loop, each with one AdvanceDecoding.
NumChunks(n, step) == (n \div step) + (IF n % step = 0 THEN 0 ELSE 1)

RECURSIVE RunCount(_)
RunCount(runs) ==
    IF runs = <<>> THEN 0 ELSE Head(runs)[2] + RunCount(Tail(runs))

(***************************************************************************)
(* Lattices and result payloads                                            *)
(***************************************************************************)
WordSyms == <<"go", "forward", "left">>
Find(w) == WordSyms[w]

\* A linear path of the lattice: word label per arc (0 is epsilon), the
\* frames each arc spans and the combined cost of the path.
PathCatalogue ==
    << [words |-> <<1, 2>>, lengths |-> <<4, 6>>, cost |-> 3],
       [words |-> <<0, 1, 3>>, lengths |-> <<2, 3, 5>>, cost |-> 5],
       [words |-> <<3, 0>>, lengths |-> <<7, 3>>, cost |-> 6] >>

PathAt(i) ==
    LET p == PathCatalogue[((i - 1) % Len(PathCatalogue)) + 1]
    IN [p EXCEPT !.cost = p.cost + 10 * ((i - 1) \div Len(PathCatalogue))]

\* The rescored lattices the decoder can hand back, paths by ascending cost.
Lattices == {[i \in 1..n |-> PathAt(i)] : n \in 1..MaxPaths}

NumPaths(lat) == Len(lat)

\* A stored result, by the keys of its JSON; "scores" is written by the
\* speaker block of MbrResult only.
Payload(form, text, result, alternatives, spk, spk_frames) ==
    [form |-> form, text |-> text, result |-> result,
     alternatives |-> alternatives, spk |-> spk, spk_frames |-> spk_frames,
     scores |-> {}]

\* last_result_ before any result was stored.
NoResult == Payload("none", <<>>, <<>>, <<>>, FALSE, 0)

\* {"text": ""}
EmptySingle == Payload("text", <<>>, <<>>, <<>>, FALSE, 0)
\* {"alternatives" : [{"text": "", "confidence" : 1.0}] }
EmptyNbest ==
    Payload("alternatives", <<>>, <<>>,
            << [text |-> <<>>, confidence |-> 1, result |-> <<>>] >>, FALSE, 0)

\* Mutant: the two canonical payloads swapped.
StoreEmptyReturn_Swapped ==
    IF max_alternatives_ = 0 THEN EmptyNbest ELSE EmptySingle

StoreEmptyReturn == IF max_alternatives_ = 0 THEN EmptySingle ELSE EmptyNbest

\* Absolute time of frame t, in samples:
\* samples_round_start_ / sample_frequency_ + (frame_offset_ + t) * 0.03
AbsTime(t) ==
    samples_round_start_
      + (frame_offset_ + t) * ((sample_frequency_ * 3) \div 100)

RECURSIVE BeginTime(_, _)
BeginTime(lengths, i) ==
    IF i = 1 THEN 0 ELSE BeginTime(lengths, i - 1) + lengths[i - 1]

\* MinimumBayesRisk::GetOneBest of the best path: its non-epsilon arcs.
OneBest(path) ==
    SelectSeq([i \in 1..Len(path.words) |->
                  [word |-> path.words[i],
                   start |-> BeginTime(path.lengths, i),
                   end |-> BeginTime(path.lengths, i) + path.lengths[i]]],
              LAMBDA a : a.word # 0)

RECURSIVE MbrText(_, _)
MbrText(best, i) ==
    IF i = 0 THEN <<>>
    ELSE MbrText(best, i - 1) \o (IF i # 1 THEN <<" ">> ELSE <<>>)
                              \o <<Find(best[i].word)>>

MbrWords(best) ==
    IF words_
    THEN [i \in 1..Len(best) |->
             [word |-> Find(best[i].word), start |-> AbsTime(best[i].start),
              end |-> AbsTime(best[i].end)]]
    ELSE <<>>

\* Mutant: exactly MIN_SPK_FEATS frames count as too few.
GetSpkVector_OffByOne(num_frames, c) ==
    IF num_frames < 0 THEN "abort"
    ELSE IF c <= MIN_SPK_FEATS THEN "short"
    ELSE IF spk_transform = "linear" THEN "ok"
    ELSE "abort"

\* Outcome of GetSpkVector for c non-silence frames out of num_frames:
\* "short" (returns false), "ok" (returns true), or "abort" (an assertion of
\* the matrix library fails: a negative row count, or a transform whose
\* column count is not the embedding dimension).
GetSpkVector(num_frames, c) ==
    IF num_frames < 0 THEN "abort"
    ELSE IF c < MIN_SPK_FEATS THEN "short"
    ELSE IF spk_transform = "linear" THEN "ok"
    ELSE "abort"

\* Whether the product that whitens the raw embedding in GetSpkVector has
\* operands of matching dimensions: it multiplies the whole transform with
\* the embedding, whatever the column count.
WhiteningOperandsMatch == spk_transform = "linear"

\* Whether the products of PldaScoring have operands of matching dimensions:
\* the whole transform for a linear one, its leading columns (the last one is
\* added as the bias) for an affine one.
PldaOperandsMatch == spk_transform \in {"linear", "affine"}

\* PldaScoring's branch on the column count of the transform: as many columns
\* as the embedding has entries or one more are scored, any other count is a
\* KALDI_ERR, which throws.
PldaScoring == IF spk_transform \in {"linear", "affine"} THEN "ok" ELSE "throw"

\* What the extraction can come to over the builds of the matrix library.
\* The dimension check of the product that whitens the embedding is a
\* KALDI_ASSERT: where assertions are compiled out, a transform whose column
\* count is not the embedding dimension is multiplied all the same (reading
\* the embedding out of range) and the extraction goes on into PldaScoring.
\* A feature matrix of a negative row count is refused in every build.
GetSpkVectorOutcomes(num_frames, c) ==
    {GetSpkVector(num_frames, c)}
      \cup (IF num_frames >= 0 /\ c >= MIN_SPK_FEATS
                /\ spk_transform # "linear"
             THEN {PldaScoring} ELSE {})

\* Plda::LogLikelihoodRatio of the prototype of a speaker against the
\* embedding of the utterance, which was computed from c non-silence frames:
\* the ratio is kept as what it was computed from.
LogLikelihoodRatio(id, c) == <<id, c>>

\* scores_ after the scoring loop of PldaScoring: one entry for every
\* enrolled id with a prototype; insert leaves an id that is already in the
\* map as it is.
PldaScores(scores, c) ==
    scores \cup
      {[speaker |-> id, score |-> LogLikelihoodRatio(id, c)] :
         id \in {k \in spk_enrolment.num_utts :
                    /\ k \in spk_enrolment.train_ivectors
                    /\ \A x \in scores : x.speaker # k}}

\* std::max_element over scores_ and the "speaker ... score ..." log line:
\* over an empty map it returns the end iterator, which the log line
\* dereferences; the read is undefined behaviour, the call goes on or dies.
MaxElement(scores) ==
    IF scores = {} THEN {"ok", "abort"} ELSE {"ok"}

\* Outcomes of the speaker part of MbrResult; "none" without a speaker model.
SpkOutcomes(num_frames, c) ==
    IF spk_model_ = NoSpk THEN {"none"}
    ELSE UNION {IF o = "ok" THEN MaxElement(PldaScores(scores_, c)) ELSE {o} :
                  o \in GetSpkVectorOutcomes(num_frames, c)}

\* Speaker block of the single-best result.
SpkBlock(o) == o = "ok"

MbrAborts(o) == o = "abort"

MbrThrows(o) == o = "throw"

\* scores_ after MbrResult: cleared after the speaker block was written,
\* untouched when GetSpkVector returned false.
ScoresAfter(o, c) == IF SpkBlock(o) THEN {} ELSE scores_

MbrResult(lat, o, c) ==
    LET best == OneBest(lat[1])
        blk == SpkBlock(o)
    IN [Payload("text", MbrText(best, Len(best)), MbrWords(best), <<>>,
                blk, IF blk THEN c ELSE 0)
          EXCEPT !.scores = IF blk THEN PldaScores(scores_, c) ELSE {}]

\* Text of one N-best entry: epsilon arcs are skipped, a separator is written
\* before every word that is not at index 0 of the aligned path.
RECURSIVE NbestText(_, _)
NbestText(words, i) ==
    IF i = 0 THEN <<>>
    ELSE NbestText(words, i - 1)
           \o (IF words[i] = 0 THEN <<>>
               ELSE (IF i # 1 THEN <<" ">> ELSE <<>>) \o <<Find(words[i])>>)

\* Weight::Zero(), the weight the walk reports for a path it gave up on.
WeightZero == 1000000

\* Where the walk over an aligned N-best path gives up: 0 when the path is
\* linear; d > 0 when the d-th state it visits ends it (no start state for
\* d = 1, a non-final state without exactly one arc, a final state with arcs).
Defects == {1, 2}

\* The defects of the first k of n aligned paths, one per path.  Without
\* word-boundary information the aligned path is the linear path itself;
\* with it the path is what WordAlignLattice made of it.
Walks(n, k) ==
    IF model_.winfo_
    THEN {w \in [1..n -> {0} \cup Defects] :
             \A i \in 1..n : i > k => w[i] = 0}
    ELSE {[i \in 1..n |-> 0]}

\* CompactLatticeToWordAlignmentWeight: the words, begin times and lengths
\* pushed before the walk returned, whether it returned true, and the total
\* weight it wrote (Weight::Zero() unless it reached the final state).
CompactLatticeToWordAlignmentWeight(path, defect) ==
    LET n == IF defect = 0 THEN Len(path.words)
             ELSE Min(defect - 1, Len(path.words))
    IN [ok |-> defect = 0,
        words |-> SubSeq(path.words, 1, n),
        begin_times |-> [i \in 1..n |-> BeginTime(path.lengths, i)],
        lengths |-> SubSeq(path.lengths, 1, n),
        weight |-> IF defect = 0 THEN path.cost ELSE WeightZero]

NbestWords(w) ==
    IF words_
    THEN LET all == [i \in 1..Len(w.words) |->
                        [word |-> w.words[i],
                         start |-> AbsTime(w.begin_times[i]),
                         end |-> AbsTime(w.begin_times[i] + w.lengths[i])]]
             kept == SelectSeq(all, LAMBDA a : a.word # 0)
         IN [i \in 1..Len(kept) |-> [kept[i] EXCEPT !.word = Find(kept[i].word)]]
    ELSE <<>>

\* fst::ShortestPath(lat, &nbest_lat, n) and ConvertNbestToVector: the n
\* cheapest paths, fewer when the lattice holds fewer.
ShortestPath(lat, n) == SubSeq(lat, 1, Min(n, NumPaths(lat)))

\* One iteration of the loop over the paths: the return value of the walk is
\* not looked at, the entry is built from what the walk left behind.
NbestEntry(path, defect) ==
    LET w == CompactLatticeToWordAlignmentWeight(path, defect)
    IN [text |-> NbestText(w.words, Len(w.words)),
        confidence |-> 0 - w.weight,
        result |-> NbestWords(w)]

\* Mutant: one path more than configured is asked for.
NbestResult_OneMore(lat, walk) ==
    LET nbest == ShortestPath(lat, max_alternatives_ + 1)
    IN Payload("alternatives", <<>>, <<>>,
               [k \in 1..Len(nbest) |-> NbestEntry(nbest[k], walk[k])],
               FALSE, 0)

NbestResult(lat, walk) ==
    LET nbest == ShortestPath(lat, max_alternatives_)
    IN Payload("alternatives", <<>>, <<>>,
               [k \in 1..Len(nbest) |-> NbestEntry(nbest[k], walk[k])],
               FALSE, 0)

\* Frames of the speaker-feature stream GetSpkVector walks over.
SpkNumFrames(spk, offset) ==
    FeatFramesReady(spk.samples, sample_frequency_) - offset * FrameSubsampling

\* Non-silence frame counts the silence tracker can report for num_frames.
NonsilenceCounts(num_frames) ==
    {c \in {0, MIN_SPK_FEATS - 1, MIN_SPK_FEATS, num_frames} :
        c >= 0 /\ c <= Max(0, num_frames)}

(***************************************************************************)
(* Construction                                                            *)
(***************************************************************************)
\* The last call: its name, what CleanUp did in it, and what the engines
\* reported to it (non-silence speaker frames, paths of the lattice, where
\* the walk over each aligned N-best path gave up), its argument (the grammar
\* of a constructor, the length of a waveform), the chunks it fed and the
\* decoder advances it made, what the endpoint policy had to say at the
\* chunk boundaries, and whether it called FinalizeDecoding.
Call(name, recycle, nonsil, paths) ==
    [name |-> name, recycle |-> recycle, nonsil |-> nonsil, paths |-> paths,
     walk |-> <<>>, arg |-> 0, chunks |-> <<>>, advances |-> 0,
     policy |-> [mid |-> FALSE, last |-> FALSE], finalize |-> FALSE]

\* What the last call returned: "void", "bool" with its value, "error" (an
\* exception of KALDI_ERR), "abort" (a failed assertion ends the process) or
\* "last_result_" (the pointer StoreReturn hands out).
Returned(kind, val) == [kind |-> kind, val |-> val]

\* What a Model can hold: the precomputed graph HCLG, the two halves HCL
\* and G a graph is composed from at run time, word-boundary information.
Models ==
    [hclg_fst_ : BOOLEAN, hcl_fst_ : BOOLEAN, g_fst_ : BOOLEAN,
     winfo_ : BOOLEAN]

\* A Model with the precomputed graph only.
PrecomputedGraph ==
    [hclg_fst_ |-> TRUE, hcl_fst_ |-> FALSE, g_fst_ |-> FALSE,
     winfo_ |-> FALSE]

\* The same with word-boundary information.
WordAligned == [PrecomputedGraph EXCEPT !.winfo_ = TRUE]

\* InitState
InitState ==
    /\ frame_offset_ = 0
    /\ samples_processed_ = 0
    /\ samples_round_start_ = 0
    /\ state_ = INITIALIZED

\* The state a constructor leaves on a Model: the plain and grammar variants
\* attach no speaker model, the speaker-enabled variant attaches one (spks),
\* whose transform has one of the given shapes; the sample rate is taken as
\* the caller gives it.
ConstructedOn(model, rates, spks, shapes, enrolments) ==
    /\ sample_frequency_ \in rates
    /\ spk_transform \in shapes
    /\ spk_enrolment \in enrolments
    /\ scores_ = {}
    /\ pc = Idle
    /\ spk_model_ \in spks
    /\ model_ = model
    /\ decode_fst_ = FALSE
    /\ model_ref = 1
    /\ spk_ref = [s \in SpkModels |-> IF s = spk_model_ THEN 1 ELSE 0]
    /\ feature_pipeline_ = NewPipeline
    /\ silence_weighting_ = TRUE
    /\ decoder_ = NewDecoder
    /\ spk_feature_ = IF spk_model_ = NoSpk THEN NullSpkFeature ELSE NewSpkFeature
    /\ InitState
    /\ max_alternatives_ = 0
    /\ words_ = FALSE
    /\ last_result_ = NoResult
    /\ status = "alive"
    /\ accepts = 0
    /\ wave = [samples |-> 0, chunks |-> <<>>]
    /\ op = Call("KaldiRecognizer", "none", -1, 0)
    /\ ret = Returned("void", 0)

Constructed(model) ==
    ConstructedOn(model, SampleRates, {NoSpk} \cup SpkModels, LinearShapes,
                  {Enrolled})

Init == Constructed(PrecomputedGraph)

(***************************************************************************)
(* Recycle                                                                 *)
(***************************************************************************)
\* Mutant: the ceiling compared with >=.
HardRebuild_AtCeiling(offset) ==
    \/ ~decoder_.live
    \/ state_ = FINALIZED
    \/ offset >= FrameCeiling

\* Mutant: a released decoder is not checked for.
HardRebuild_NoNullCheck(offset) ==
    \/ state_ = FINALIZED
    \/ offset > FrameCeiling

\* Mutant: the ceiling is not looked at.
HardRebuild_NoCeiling(offset) ==
    \/ ~decoder_.live
    \/ state_ = FINALIZED

\* The condition of the hard rebuild, on frame_offset_ after the frames
\* decoded were added to it.
HardRebuild(offset) ==
    \/ ~decoder_.live
    \/ state_ = FINALIZED
    \/ offset > FrameCeiling

\* Mutant: the samples of the round replace the samples of the rounds before.
AbsorbSamples_Forget == samples_processed_

\* Mutant: the samples of the round are subtracted.
AbsorbSamples_Subtract == samples_round_start_ - samples_processed_

\* samples_round_start_ after the hard rebuild absorbed samples_processed_.
AbsorbSamples == samples_round_start_ + samples_processed_

\* CleanUp: the session fields it leaves.
\* Mutant: a hard rebuild leaves samples_processed_ as it is.
CleanUp_KeepsProcessed ==
    LET offset == IF decoder_.live THEN frame_offset_ + decoder_.frames
                  ELSE frame_offset_
    IN IF HardRebuild(offset)
       THEN [kind |-> "rebuild",
             samples_round_start |-> AbsorbSamples,
             samples_processed |-> samples_processed_,
             frame_offset |-> 0,
             decoder |-> NewDecoder,
             pipeline |-> NewPipeline,
             spk_feature |-> IF spk_model_ # NoSpk THEN NewSpkFeature
                             ELSE spk_feature_]
       ELSE [kind |-> "resume",
             samples_round_start |-> samples_round_start_,
             samples_processed |-> samples_processed_,
             frame_offset |-> offset,
             decoder |-> [decoder_ EXCEPT !.frames = 0],
             pipeline |-> feature_pipeline_,
             spk_feature |-> spk_feature_]

CleanUp ==
    LET offset == IF decoder_.live THEN frame_offset_ + decoder_.frames
                  ELSE frame_offset_
    IN IF HardRebuild(offset)
       THEN [kind |-> "rebuild",
             samples_round_start |-> AbsorbSamples,
             samples_processed |-> 0,
             frame_offset |-> 0,
             decoder |-> NewDecoder,
             pipeline |-> NewPipeline,
             spk_feature |-> IF spk_model_ # NoSpk THEN NewSpkFeature
                             ELSE spk_feature_]
       ELSE [kind |-> "resume",
             samples_round_start |-> samples_round_start_,
             samples_processed |-> samples_processed_,
             frame_offset |-> offset,
             decoder |-> [decoder_ EXCEPT !.frames = 0],
             pipeline |-> feature_pipeline_,
             spk_feature |-> spk_feature_]

NoCleanUp ==
    [kind |-> "none",
     samples_round_start |-> samples_round_start_,
     samples_processed |-> samples_processed_,
     frame_offset |-> frame_offset_,
     decoder |-> decoder_,
     pipeline |-> feature_pipeline_,
     spk_feature |-> spk_feature_]

\* Mutant: only a finalized session is cleaned up.
NeedsCleanUp_FinalizedOnly == state_ = FINALIZED

\* Whether AcceptWaveform runs CleanUp first.
NeedsCleanUp == ~(state_ = RUNNING \/ state_ = INITIALIZED)

(***************************************************************************)
(* Operations                                                              *)
(***************************************************************************)
\* Total of the references held on speaker models.
RECURSIVE SumRefs(_, _)
SumRefs(refs, models) ==
    IF models = {} THEN 0
    ELSE LET s == CHOOSE x \in models : TRUE
         IN refs[s] + SumRefs(refs, models \ {s})

\* The fields of a session that no longer exists.
Gone ==
    /\ state_' = INITIALIZED
    /\ frame_offset_' = 0
    /\ samples_processed_' = 0
    /\ samples_round_start_' = 0
    /\ max_alternatives_' = 0
    /\ words_' = FALSE
    /\ spk_model_' = NoSpk
    /\ decoder_' = NullDecoder
    /\ feature_pipeline_' = NullPipeline
    /\ silence_weighting_' = FALSE
    /\ spk_feature_' = NullSpkFeature
    /\ last_result_' = NoResult
    /\ accepts' = 0
    /\ wave' = [samples |-> 0, chunks |-> <<>>]
    /\ decode_fst_' = FALSE
    /\ UNCHANGED <<sample_frequency_,
                   spk_transform, spk_enrolment, scores_, pc, model_>>

\* A failed assertion of the matrix library inside `name`: the process ends.
Abort(name, nonsil, paths) ==
    /\ status' = "aborted"
    /\ op' = Call(name, "none", nonsil, paths)
    /\ ret' = Returned("abort", 0)
    /\ Gone
    /\ UNCHANGED <<model_ref, spk_ref>>

\* ~KaldiRecognizer
Destroy ==
    /\ status = "alive"
    /\ status' = "destroyed"
    /\ model_ref' = model_ref - 1
    /\ spk_ref' = IF spk_model_ # NoSpk
                  THEN [spk_ref EXCEPT ![spk_model_] = @ - 1]
                  ELSE spk_ref
    /\ op' = Call("~KaldiRecognizer", "none", -1, 0)
    /\ ret' = Returned("void", 0)
    /\ Gone

\* What the endpoint policy of the decoder says along a buffer of `chunks`
\* chunks: whether it reports an endpoint at a chunk boundary before the
\* last one, and whether it reports one once the whole buffer is decoded.
EndpointPolicies(chunks) ==
    [mid : IF chunks >= 2 THEN BOOLEAN ELSE {FALSE}, last : BOOLEAN]

\* Mutant: an endpoint at any chunk boundary counts.
EndpointDetected_AnyChunk(e) == e.mid \/ e.last

\* decoder_->EndpointDetected, asked once after the loop.
EndpointDetected(e) == e.last

\* The grammar argument: an array with no entry (or no array at all), an
\* array of sentences, an array with an entry that is not a string.
Grammars == {"empty", "strings", "nonstring"}

\* The constructor variants with their extra argument.
Constructors ==
    {<<"KaldiRecognizer(Model*, float)", "none">>,
     <<"KaldiRecognizer(Model*, float, SpkModel*)", "none">>}
      \cup {<<"KaldiRecognizer(Model*, float, char const*)", g>> :
                g \in Grammars}

GrammarVariant == "KaldiRecognizer(Model*, float, char const*)"
SpeakerVariant == "KaldiRecognizer(Model*, float, SpkModel*)"

\* Before the constructor ran: a Model, and no session.
Unborn ==
    /\ status = "unborn"
    /\ model_ \in Models
    /\ sample_frequency_ \in SampleRates
    /\ spk_transform \in LinearShapes
    /\ spk_enrolment = Enrolled
    /\ scores_ = {}
    /\ pc = Idle
    /\ decode_fst_ = FALSE
    /\ model_ref = 0
    /\ spk_ref = [s \in SpkModels |-> 0]
    /\ spk_model_ = NoSpk
    /\ feature_pipeline_ = NullPipeline
    /\ silence_weighting_ = FALSE
    /\ decoder_ = NullDecoder
    /\ spk_feature_ = NullSpkFeature
    /\ InitState
    /\ max_alternatives_ = 0
    /\ words_ = FALSE
    /\ last_result_ = NoResult
    /\ accepts = 0
    /\ wave = [samples |-> 0, chunks |-> <<>>]
    /\ op = Call("none", "none", -1, 0)
    /\ ret = Returned("void", 0)

\* Whether the constructor composes a graph for the session.
Composes(variant, grammar) ==
    IF variant = GrammarVariant
    THEN model_.hcl_fst_ /\ grammar = "strings"
    ELSE ~model_.hclg_fst_ /\ model_.hcl_fst_ /\ model_.g_fst_

\* Whether the constructor throws.
ConstructorThrows(variant, grammar) ==
    IF variant = GrammarVariant
    THEN model_.hcl_fst_ /\ grammar = "nonstring"
    ELSE ~model_.hclg_fst_ /\ ~(model_.hcl_fst_ /\ model_.g_fst_)

\* The three constructors.  An exception leaves no session, and the
\* references taken before it stay taken.  Handing *decode_fst_ of a null
\* decode_fst_ to the decoder is undefined: the process ends in the
\* constructor of the decoder, or goes on with a decoder on no graph.
Construct(variant, grammar) ==
    /\ status = "unborn"
    /\ model_ref' = model_ref + 1
    /\ spk_ref' = IF variant = SpeakerVariant
                  THEN [s \in SpkModels |-> 1] ELSE spk_ref
    /\ op' = [Call(variant, "none", -1, 0) EXCEPT !.arg = grammar]
    /\ LET composed == Composes(variant, grammar)
           graph == DecodeGraph(model_, composed)
           built ==
               /\ status' = "alive"
               /\ ret' = Returned("void", 0)
               /\ decode_fst_' = composed
               /\ feature_pipeline_' = NewPipeline
               /\ silence_weighting_' = TRUE
               /\ decoder_' = [live |-> TRUE, frames |-> 0, fst |-> graph]
               /\ spk_model_' = IF variant = SpeakerVariant
                                THEN CHOOSE m \in SpkModels : TRUE ELSE NoSpk
               /\ spk_feature_' = IF variant = SpeakerVariant
                                  THEN NewSpkFeature ELSE NullSpkFeature
       IN IF ConstructorThrows(variant, grammar)
          THEN /\ status' = "failed"
               /\ ret' = Returned("error", 0)
               /\ UNCHANGED <<decode_fst_, feature_pipeline_,
                              silence_weighting_, decoder_, spk_model_,
                              spk_feature_>>
          ELSE IF graph = "null"
          THEN \/ built
               \/ /\ status' = "aborted"
                  /\ ret' = Returned("abort", 0)
                  /\ UNCHANGED <<decode_fst_, feature_pipeline_,
                                 silence_weighting_, decoder_, spk_model_,
                                 spk_feature_>>
          ELSE built
    /\ UNCHANGED <<state_, frame_offset_, samples_processed_,
                   samples_round_start_, sample_frequency_, model_,
                   spk_transform, spk_enrolment, scores_, pc,
                   max_alternatives_, words_, last_result_, accepts, wave>>

\* AcceptWaveform, as one of at most `limit` calls of the session.
AcceptWaveformWithin(n, limit) ==
    /\ status = "alive"
    /\ accepts < limit
    /\ decoder_.fst # "null"
    /\ LET c == IF NeedsCleanUp THEN CleanUp ELSE NoCleanUp
           step == Step(sample_frequency_)
           fed == c.pipeline.samples + n
           ready == DecodableFrames(fed, sample_frequency_, c.frame_offset)
       IN /\ decoder_' = [c.decoder EXCEPT
                            !.frames = AdvanceDecoding(c.decoder.frames, ready)]
          /\ feature_pipeline_' = [c.pipeline EXCEPT !.samples = fed]
          /\ silence_weighting_' = TRUE
          /\ spk_feature_' =
                IF c.spk_feature.live
                THEN [c.spk_feature EXCEPT !.samples = @ + n]
                ELSE c.spk_feature
          /\ frame_offset_' = c.frame_offset
          /\ samples_round_start_' = c.samples_round_start
          /\ samples_processed_' = c.samples_processed + n
          /\ wave' = IF c.kind = "none"
                     THEN [samples |-> wave.samples + n,
                           chunks |-> FeedChunks(wave.chunks, n, step)]
                     ELSE [samples |-> n,
                           chunks |-> FeedChunks(<<>>, n, step)]
          /\ \E e \in EndpointPolicies(NumChunks(n, step)) :
                /\ op' = [Call("AcceptWaveform", c.kind, -1, 0) EXCEPT
                             !.arg = n,
                             !.chunks = FeedChunks(<<>>, n, step),
                             !.advances = NumChunks(n, step),
                             !.policy = e]
                /\ ret' = Returned("bool", EndpointDetected(e))
    /\ state_' = RUNNING
    /\ accepts' = accepts + 1
    /\ UNCHANGED <<spk_transform, spk_enrolment, scores_, pc,
                   sample_frequency_, model_, decode_fst_, max_alternatives_,
                   words_, spk_model_, last_result_, model_ref, spk_ref,
                   status>>

AcceptWaveform(n) == AcceptWaveformWithin(n, MaxAccepts)

\* What GetResult stores for a decoder with `frames` frames decoded: the
\* payload, with the lattice size and the non-silence speaker frames of the
\* window it was asked about, or an abort or a throw inside the speaker
\* extraction.
GetResult(frames, spk) ==
    IF frames = 0
    THEN {[abort |-> FALSE, throw |-> FALSE, payload |-> StoreEmptyReturn,
           nonsil |-> -1, paths |-> 0, walk |-> <<>>, scores |-> scores_]}
    ELSE LET nf == SpkNumFrames(spk, frame_offset_)
             counts == IF spk_model_ # NoSpk THEN NonsilenceCounts(nf)
                       ELSE {-1}
         IN IF max_alternatives_ = 0
            THEN UNION {{[abort |-> MbrAborts(o), throw |-> MbrThrows(o),
                          payload |-> IF MbrAborts(o) \/ MbrThrows(o)
                                      THEN last_result_
                                      ELSE MbrResult(lat, o, c),
                          nonsil |-> c, paths |-> NumPaths(lat),
                          walk |-> <<>>, scores |-> ScoresAfter(o, c)] :
                            o \in SpkOutcomes(nf, c)} :
                             lat \in Lattices, c \in counts}
            ELSE UNION {{[abort |-> FALSE, throw |-> FALSE,
                          payload |-> NbestResult(lat, w),
                          nonsil |-> c, paths |-> NumPaths(lat), walk |-> w,
                          scores |-> scores_] :
                            w \in Walks(NumPaths(lat), max_alternatives_)} :
                               lat \in Lattices, c \in counts}

\* Mutant: the early return also moves the session to ENDPOINT.
EmptyReturn_Endpoint(name) ==
    /\ state_ # RUNNING
    /\ state_' = ENDPOINT
    /\ last_result_' = StoreEmptyReturn
    /\ ret' = Returned("last_result_", 0)
    /\ op' = Call(name, "none", -1, 0)
    /\ UNCHANGED <<frame_offset_, samples_processed_,
                   samples_round_start_, sample_frequency_, model_, decode_fst_,
                   spk_transform, spk_enrolment, scores_, pc,
                   max_alternatives_, words_, spk_model_, decoder_,
                   feature_pipeline_, silence_weighting_, spk_feature_,
                   model_ref, spk_ref, status, accepts, wave>>

EmptyReturn(name) ==
    /\ state_ # RUNNING
    /\ last_result_' = StoreEmptyReturn
    /\ ret' = Returned("last_result_", 0)
    /\ op' = Call(name, "none", -1, 0)
    /\ UNCHANGED <<state_, frame_offset_, samples_processed_,
                   samples_round_start_, sample_frequency_, model_, decode_fst_,
                   spk_transform, spk_enrolment, scores_, pc, max_alternatives_,
                   words_, spk_model_, decoder_, feature_pipeline_,
                   silence_weighting_, spk_feature_, model_ref, spk_ref,
                   status, accepts, wave>>

\* Mutant: a partial result ends the utterance as Result does.
PartialResult_Endpoint ==
    /\ status = "alive"
    /\ \/ EmptyReturn("PartialResult")
       \/ /\ state_ = RUNNING
          /\ \E lat \in Lattices :
                LET best == OneBest(lat[1])
                    res == Payload("partial",
                                   IF decoder_.frames = 0 THEN <<>>
                                   ELSE MbrText(best, Len(best)),
                                   <<>>, <<>>, FALSE, 0)
                IN last_result_' = res
          /\ ret' = Returned("last_result_", 0)
          /\ op' = Call("PartialResult", "none", -1, 0)
          /\ state_' = ENDPOINT
          /\ UNCHANGED <<frame_offset_, samples_processed_,
                         samples_round_start_, sample_frequency_, model_,
                         decode_fst_, spk_transform, spk_enrolment, scores_,
                         pc, max_alternatives_, words_, spk_model_, decoder_,
                         feature_pipeline_, silence_weighting_, spk_feature_,
                         model_ref, spk_ref, status, accepts, wave>>

PartialResult ==
    /\ status = "alive"
    /\ \/ EmptyReturn("PartialResult")
       \/ /\ state_ = RUNNING
          /\ \E lat \in Lattices :
                LET best == OneBest(lat[1])
                    res == Payload("partial",
                                   IF decoder_.frames = 0 THEN <<>>
                                   ELSE MbrText(best, Len(best)),
                                   <<>>, <<>>, FALSE, 0)
                IN last_result_' = res
          /\ ret' = Returned("last_result_", 0)
          /\ op' = Call("PartialResult", "none", -1, 0)
          /\ UNCHANGED <<state_, frame_offset_, samples_processed_,
                         samples_round_start_, sample_frequency_, model_,
                         decode_fst_, spk_transform, spk_enrolment, scores_,
                         pc, max_alternatives_, words_, spk_model_, decoder_,
                         feature_pipeline_, silence_weighting_, spk_feature_,
                         model_ref, spk_ref, status, accepts, wave>>

\* A KALDI_ERR thrown inside GetResult leaves the call by an exception: the
\* state the caller set before GetResult stays, nothing is stored, and what
\* FinalResult frees after GetResult is not freed.
Throw(name, st, frames, nonsil, paths) ==
    /\ state_' = st
    /\ decoder_' = [decoder_ EXCEPT !.frames = frames]
    /\ ret' = Returned("throw", 0)
    /\ op' = [Call(name, "none", nonsil, paths) EXCEPT !.finalize = TRUE]
    /\ UNCHANGED <<frame_offset_, samples_processed_, samples_round_start_,
                   sample_frequency_, model_, decode_fst_,
                   spk_transform, spk_enrolment, scores_, pc,
                   max_alternatives_, words_, spk_model_, feature_pipeline_,
                   silence_weighting_, spk_feature_, last_result_,
                   model_ref, spk_ref, status, accepts, wave>>

Result ==
    /\ status = "alive"
    /\ \/ EmptyReturn("Result")
       \/ /\ state_ = RUNNING
          /\ \E r \in GetResult(decoder_.frames, spk_feature_) :
                IF r.abort THEN Abort("Result", r.nonsil, r.paths)
                ELSE IF r.throw
                THEN Throw("Result", ENDPOINT, decoder_.frames, r.nonsil,
                           r.paths)
                ELSE
                /\ state_' = ENDPOINT
                /\ last_result_' = r.payload
                /\ scores_' = r.scores
                /\ ret' = Returned("last_result_", 0)
                /\ op' = [Call("Result", "none", r.nonsil, r.paths)
                           EXCEPT !.walk = r.walk, !.finalize = TRUE]
                /\ UNCHANGED <<frame_offset_, samples_processed_,
                               samples_round_start_, sample_frequency_, model_,
                               decode_fst_, spk_transform, spk_enrolment, pc,
                               max_alternatives_, words_, spk_model_, decoder_,
                               feature_pipeline_, silence_weighting_,
                               spk_feature_, model_ref, spk_ref, status,
                               accepts, wave>>

FinalResult ==
    /\ status = "alive"
    /\ \/ EmptyReturn("FinalResult")
       \/ /\ state_ = RUNNING
          /\ LET f == AdvanceDecoding(decoder_.frames,
                          DecodableFrames(feature_pipeline_.samples,
                                          sample_frequency_, frame_offset_))
             IN
             \E r \in GetResult(f, spk_feature_) :
                IF r.abort THEN Abort("FinalResult", r.nonsil, r.paths)
                ELSE IF r.throw
                THEN Throw("FinalResult", FINALIZED, f, r.nonsil, r.paths)
                ELSE
                /\ state_' = FINALIZED
                /\ last_result_' = r.payload
                /\ scores_' = r.scores
                /\ ret' = Returned("last_result_", 0)
                /\ op' = [Call("FinalResult", "none", r.nonsil, r.paths)
                           EXCEPT !.walk = r.walk, !.finalize = TRUE]
                /\ decoder_' = NullDecoder
                /\ feature_pipeline_' = NullPipeline
                /\ silence_weighting_' = FALSE
                /\ spk_feature_' = NullSpkFeature
                /\ UNCHANGED <<frame_offset_, samples_processed_,
                               samples_round_start_, sample_frequency_, model_,
                               decode_fst_, spk_transform, spk_enrolment, pc,
                               max_alternatives_, words_, spk_model_,
                               model_ref, spk_ref, status, accepts, wave>>

\* Mutant: the stored result is left as it is.
Reset_KeepsResult ==
    /\ status = "alive"
    /\ last_result_' = last_result_
    /\ state_' = ENDPOINT
    /\ op' = [Call("Reset", "none", -1, 0)
                EXCEPT !.finalize = (state_ = RUNNING)]
    /\ ret' = Returned("void", 0)
    /\ UNCHANGED <<frame_offset_, samples_processed_, samples_round_start_,
                   sample_frequency_, model_, decode_fst_, spk_transform,
                   spk_enrolment, scores_, pc, max_alternatives_, words_,
                   spk_model_, decoder_, feature_pipeline_, silence_weighting_,
                   spk_feature_, model_ref, spk_ref, status, accepts, wave>>

Reset ==
    /\ status = "alive"
    /\ last_result_' = StoreEmptyReturn
    /\ state_' = ENDPOINT
    /\ op' = [Call("Reset", "none", -1, 0)
                EXCEPT !.finalize = (state_ = RUNNING)]
    /\ ret' = Returned("void", 0)
    /\ UNCHANGED <<frame_offset_, samples_processed_, samples_round_start_,
                   sample_frequency_, model_, decode_fst_, spk_transform,
                   spk_enrolment, scores_, pc, max_alternatives_, words_,
                   spk_model_, decoder_, feature_pipeline_, silence_weighting_,
                   spk_feature_, model_ref, spk_ref, status, accepts, wave>>

SetMaxAlternatives(k) ==
    /\ status = "alive"
    /\ max_alternatives_' = k
    /\ op' = Call("SetMaxAlternatives", "none", -1, 0)
    /\ ret' = Returned("void", 0)
    /\ UNCHANGED <<state_, frame_offset_, samples_processed_,
                   samples_round_start_, sample_frequency_, model_,
                   decode_fst_, spk_transform, spk_enrolment, scores_, pc,
                   words_, spk_model_, decoder_, feature_pipeline_,
                   silence_weighting_, spk_feature_, last_result_, model_ref,
                   spk_ref, status, accepts, wave>>

SetWords(w) ==
    /\ status = "alive"
    /\ words_' = w
    /\ op' = Call("SetWords", "none", -1, 0)
    /\ ret' = Returned("void", 0)
    /\ UNCHANGED <<state_, frame_offset_, samples_processed_,
                   samples_round_start_, sample_frequency_, model_, decode_fst_,
                   spk_transform, spk_enrolment, scores_, pc, max_alternatives_,
                   spk_model_, decoder_, feature_pipeline_, silence_weighting_,
                   spk_feature_, last_result_, model_ref, spk_ref, status,
                   accepts, wave>>

\* Mutant: the state is not checked.
SetSpkModelRejects_Never == FALSE

\* Whether SetSpkModel refuses the call.
SetSpkModelRejects == state_ = RUNNING

\* The references SetSpkModel leaves on the speaker models after attaching s.
SetSpkModelRefs(s) == [spk_ref EXCEPT ![s] = @ + 1]

SetSpkModel(s) ==
    /\ status = "alive"
    /\ op' = Call("SetSpkModel", "none", -1, 0)
    /\ IF SetSpkModelRejects
       THEN /\ ret' = Returned("error", 0)
            /\ UNCHANGED <<spk_model_, spk_ref, spk_feature_>>
       ELSE /\ SumRefs(spk_ref, SpkModels) < MaxRef
            /\ spk_model_' = s
            /\ spk_ref' = SetSpkModelRefs(s)
            /\ spk_feature_' = NewSpkFeature
            /\ ret' = Returned("void", 0)
    /\ UNCHANGED <<state_, frame_offset_, samples_processed_,
                   samples_round_start_, sample_frequency_, model_, decode_fst_,
                   spk_transform, spk_enrolment, scores_, pc, max_alternatives_,
                   words_, decoder_, feature_pipeline_, silence_weighting_,
                   last_result_, model_ref, status, accepts, wave>>

Next ==
    \/ \E n \in WaveLens : AcceptWaveform(n)
    \/ PartialResult
    \/ Result
    \/ FinalResult
    \/ Reset
    \/ \E k \in 0..MaxAlternatives : SetMaxAlternatives(k)
    \/ \E w \in BOOLEAN : SetWords(w)
    \/ \E s \in SpkModels : SetSpkModel(s)
    \/ Destroy

Spec == Init /\ [][Next]_vars

\* A decoder on no graph: its first use ends the process.
NullGraph ==
    /\ status = "alive"
    /\ decoder_.fst = "null"
    /\ Abort("AcceptWaveform", -1, 0)

\* Sessions from their construction on, over every Model.
NextConstructed ==
    \/ \E c \in Constructors : Construct(c[1], c[2])
    \/ \E n \in WaveLens : AcceptWaveform(n)
    \/ NullGraph
    \/ Result
    \/ FinalResult
    \/ Destroy

SpecConstructed == Unborn /\ [][NextConstructed]_vars

\* N-best extraction on a Model with word-boundary information.
NextWordAligned ==
    \/ \E n \in WaveLens : AcceptWaveform(n)
    \/ \E k \in 0..MaxAlternatives : SetMaxAlternatives(k)
    \/ \E w \in BOOLEAN : SetWords(w)
    \/ Result
    \/ FinalResult

SpecWordAligned == Constructed(WordAligned) /\ [][NextWordAligned]_vars

\* A caller that streams audio and asks for results, single-best or N-best.
NextStream ==
    \/ \E n \in WaveLens : AcceptWaveformWithin(n, MaxStreamAccepts)
    \/ PartialResult
    \/ Result
    \/ FinalResult
    \/ Reset
    \/ \E k \in 0..MaxAlternatives : SetMaxAlternatives(k)

SpecStream == Init /\ [][NextStream]_vars

\* A session of the speaker-enabled constructor, over the shapes the
\* transform of its speaker model can have.
SpeakerEnabled ==
    ConstructedOn(PrecomputedGraph, SampleRates, SpkModels, TransformShapes,
                  {Enrolled})

NextSpeaker ==
    \/ \E n \in WaveLens : AcceptWaveform(n)
    \/ Result
    \/ FinalResult
    \/ Reset
    \/ \E k \in 0..MaxAlternatives : SetMaxAlternatives(k)

SpecSpeaker == SpeakerEnabled /\ [][NextSpeaker]_vars

\* The same session with a linear transform, over what its speaker model
\* can hold of the enrolled speakers.
SpeakerEnrolled ==
    ConstructedOn(PrecomputedGraph, SampleRates, SpkModels, LinearShapes,
                  Enrolments)

SpecEnrolled == SpeakerEnrolled /\ [][NextSpeaker]_vars

(***************************************************************************)
(* AcceptWaveform, one step of its chunking loop at a time                 *)
(***************************************************************************)
\* The call up to its loop: CleanUp where needed, state_, the chunk length.
Enter(n) ==
    /\ status = "alive"
    /\ pc = Idle
    /\ accepts < MaxAccepts
    /\ decoder_.fst # "null"
    /\ LET c == IF NeedsCleanUp THEN CleanUp ELSE NoCleanUp
       IN /\ decoder_' = c.decoder
          /\ feature_pipeline_' = c.pipeline
          /\ silence_weighting_' = TRUE
          /\ spk_feature_' = c.spk_feature
          /\ frame_offset_' = c.frame_offset
          /\ samples_round_start_' = c.samples_round_start
          /\ samples_processed_' = c.samples_processed
          /\ wave' = IF c.kind = "none" THEN wave
                     ELSE [samples |-> 0, chunks |-> <<>>]
          /\ op' = [Call("AcceptWaveform", c.kind, -1, 0) EXCEPT !.arg = n]
    /\ state_' = RUNNING
    /\ accepts' = accepts + 1
    /\ pc' = [at |-> "test", i |-> 0, dim |-> n]
    /\ UNCHANGED <<sample_frequency_, model_, decode_fst_, spk_transform,
                   spk_enrolment, scores_, max_alternatives_, words_,
                   spk_model_, last_result_, model_ref, spk_ref, status,
                   ret>>

\* The test of the loop: i < wdata.Dim().
LoopTest ==
    /\ status = "alive"
    /\ pc.at = "test"
    /\ pc' = [pc EXCEPT !.at = IF pc.i < pc.dim THEN "body" ELSE "tail"]
    /\ UNCHANGED <<state_, frame_offset_, samples_processed_,
                   samples_round_start_, sample_frequency_, max_alternatives_,
                   words_, spk_model_, decoder_, feature_pipeline_,
                   silence_weighting_, spk_feature_, last_result_,
                   spk_transform, spk_enrolment, scores_, model_, decode_fst_,
                   model_ref, spk_ref, status, accepts, wave, op, ret>>

\* The body of the loop and its increment: the chunk of
\* min(step, wdata.Dim() - i) samples is fed to the pipeline and the decoder
\* advances over what is ready; i += step.  A chunk of no samples feeds
\* nothing and leaves nothing new to decode.
LoopBody ==
    /\ status = "alive"
    /\ pc.at = "body"
    /\ LET step == Step(sample_frequency_)
           len == Min(step, pc.dim - pc.i)
           fed == feature_pipeline_.samples + len
       IN /\ IF len > 0
             THEN /\ feature_pipeline_' =
                        [feature_pipeline_ EXCEPT !.samples = fed]
                  /\ decoder_' =
                        [decoder_ EXCEPT !.frames =
                            AdvanceDecoding(decoder_.frames,
                               DecodableFrames(fed, sample_frequency_,
                                               frame_offset_))]
                  /\ wave' = [wave EXCEPT
                                !.chunks = AppendRun(wave.chunks, len, 1)]
             ELSE UNCHANGED <<feature_pipeline_, decoder_, wave>>
          /\ pc' = [pc EXCEPT !.at = "test", !.i = pc.i + step]
    /\ UNCHANGED <<state_, frame_offset_, samples_processed_,
                   samples_round_start_, sample_frequency_, max_alternatives_,
                   words_, spk_model_, silence_weighting_, spk_feature_,
                   last_result_, spk_transform, spk_enrolment, scores_,
                   model_, decode_fst_, model_ref, spk_ref, status, accepts,
                   op, ret>>

\* The call after its loop: the samples are counted and handed to the
\* speaker-feature stream, the endpoint policy is asked, the call returns.
Leave ==
    /\ status = "alive"
    /\ pc.at = "tail"
    /\ samples_processed_' = samples_processed_ + pc.dim
    /\ spk_feature_' = IF spk_feature_.live
                       THEN [spk_feature_ EXCEPT !.samples = @ + pc.dim]
                       ELSE spk_feature_
    /\ wave' = [wave EXCEPT !.samples = @ + pc.dim]
    /\ \E e \in EndpointPolicies(1) :
          ret' = Returned("bool", EndpointDetected(e))
    /\ pc' = Idle
    /\ UNCHANGED <<state_, frame_offset_, samples_round_start_,
                   sample_frequency_, max_alternatives_, words_, spk_model_,
                   decoder_, feature_pipeline_, silence_weighting_,
                   last_result_, spk_transform, spk_enrolment, scores_,
                   model_, decode_fst_, model_ref, spk_ref, status, accepts,
                   op>>

\* A session at any of ChunkRates, its calls made one after the other.
Chunking ==
    ConstructedOn(PrecomputedGraph, ChunkRates, {NoSpk} \cup SpkModels,
                  LinearShapes, {Enrolled})

NextChunking ==
    \/ \E n \in ChunkLens : Enter(n)
    \/ LoopTest
    \/ LoopBody
    \/ Leave
    \/ pc = Idle /\ Result

\* The thread that made the call keeps running it.
SpecChunking ==
    /\ Chunking
    /\ [][NextChunking]_vars
    /\ WF_vars(LoopTest)
    /\ WF_vars(LoopBody)
    /\ WF_vars(Leave)

(***************************************************************************)
(* Properties                                                              *)
(***************************************************************************)
ResultCalls == {"PartialResult", "Result", "FinalResult"}
Extractions == {"Result", "FinalResult"}

\* The fields of the session other than the last stored result.
session == <<state_, frame_offset_, samples_processed_, samples_round_start_,
             sample_frequency_, max_alternatives_, words_, spk_model_,
             decoder_, feature_pipeline_, silence_weighting_, spk_feature_,
             spk_transform, model_, decode_fst_, model_ref, spk_ref, status>>

\* C1: outside RUNNING, PartialResult, Result and FinalResult return exactly
\* the canonical empty payload of the alternatives mode configured at the
\* time of the call and leave the state tag unchanged.
C1_EmptyOutsideRunning ==
    [][(status = "alive" /\ state_ # RUNNING /\ op'.name \in ResultCalls)
         => /\ ret'.kind = "last_result_"
            /\ last_result_' = (IF max_alternatives_ = 0 THEN EmptySingle
                                ELSE EmptyNbest)
            /\ state_' = state_]_vars

\* A second FinalResult with no audio in between returned the canonical empty
\* payload over the result of the first one.
C1_Witness ==
    /\ state_ = FINALIZED
    /\ op.name = "FinalResult"
    /\ samples_processed_ > 0
    /\ max_alternatives_ # 0
    /\ last_result_ = EmptyNbest

\* C2: framing invariance.  The chunks handed to the feature pipeline since
\* the last recycle are the chunks one AcceptWaveform call would make of the
\* concatenated waveform, however the caller split it.
C2_FramingInvariance ==
    status = "alive" =>
        wave.chunks = FeedChunks(<<>>, wave.samples, Step(sample_frequency_))

\* Frames decoded since the last reset, as CleanUp sees them on entry.
FramesSinceReset ==
    frame_offset_ + (IF decoder_.live THEN decoder_.frames ELSE 0)

\* C3 as stated: on every CleanUp the hard rebuild is skipped when the frames
\* decoded since the last reset are below the ceiling, the decoder exists and
\* the state is not FINALIZED, and happens in every other case, a count equal
\* to the ceiling included.
C3_RecycleBelowCeiling ==
    [][(status = "alive" /\ op'.name = "AcceptWaveform" /\ NeedsCleanUp)
         => (op'.recycle = "rebuild"
               <=> ~(/\ decoder_.live
                     /\ state_ # FINALIZED
                     /\ FramesSinceReset < FrameCeiling))]_vars

\* C3 amended: the hard rebuild is skipped when the frames decoded since the
\* last reset do not exceed the ceiling (the ceiling itself included), the
\* decoder exists and the state is not FINALIZED; it happens otherwise, and
\* CleanUp runs exactly when the state on entry is ENDPOINT or FINALIZED.
C3_RecycleUpToCeiling ==
    [][(status = "alive" /\ op'.name = "AcceptWaveform")
         => /\ (op'.recycle = "none") <=> (state_ \in {RUNNING, INITIALIZED})
            /\ state_ \in {ENDPOINT, FINALIZED}
                 => (op'.recycle = "rebuild"
                       <=> ~(/\ decoder_.live
                             /\ state_ # FINALIZED
                             /\ FramesSinceReset <= FrameCeiling))
            /\ op'.recycle = "rebuild"
                 => /\ frame_offset_' = 0
                    /\ samples_round_start_'
                         = samples_round_start_ + samples_processed_
            /\ op'.recycle = "resume"
                 => /\ frame_offset_' = FramesSinceReset
                    /\ samples_round_start_' = samples_round_start_]_vars

\* A suspend-resume recycle with exactly FrameCeiling frames decoded.
C3_Witness ==
    /\ op.name = "AcceptWaveform"
    /\ op.recycle = "resume"
    /\ frame_offset_ = FrameCeiling

\* C4: samples_round_start_ never decreases across the operations of a
\* session.
C4_RoundStartMonotone ==
    [][status' = "alive" => samples_round_start_' >= samples_round_start_]_vars

\* A hard rebuild absorbed the samples of a round.
C4_Witness ==
    /\ status = "alive"
    /\ samples_round_start_ > 0
    /\ op.recycle = "rebuild"

\* C5 as stated: in RUNNING the pipeline and the decoder exist; in FINALIZED
\* the pipeline, the decoder, the silence tracker and the speaker feature
\* extractor are all released; after the AcceptWaveform that follows, the
\* first three exist again and the extractor exists exactly when a speaker
\* model is attached.
C5_ResourceLiveness ==
    status = "alive" =>
        /\ state_ = RUNNING
             => /\ feature_pipeline_.live /\ decoder_.live
                /\ silence_weighting_
                /\ spk_feature_.live <=> spk_model_ # NoSpk
        /\ state_ = FINALIZED
             => /\ ~feature_pipeline_.live /\ ~decoder_.live
                /\ ~silence_weighting_
                /\ ~spk_feature_.live

C5_Engines ==
    status = "alive" =>
        /\ state_ = RUNNING
             => /\ feature_pipeline_.live /\ decoder_.live
                /\ silence_weighting_
                /\ spk_feature_.live <=> spk_model_ # NoSpk
        /\ state_ = FINALIZED
             => /\ ~feature_pipeline_.live /\ ~decoder_.live
                /\ ~silence_weighting_

\* C5 amended: as stated, except that in FINALIZED the speaker feature
\* extractor is released by FinalResult and exists again only once
\* SetSpkModel has been called in that state.
C5_ResourceLivenessAmended ==
    /\ []C5_Engines
    /\ [][(status' = "alive" /\ state_' = FINALIZED /\ spk_feature_'.live)
            => \/ op'.name = "SetSpkModel"
               \/ state_ = FINALIZED /\ spk_feature_.live]_vars

\* SetSpkModel created an extractor while the session is finalized.
C5_Witness ==
    /\ status = "alive"
    /\ state_ = FINALIZED
    /\ spk_feature_.live
    /\ ~decoder_.live /\ ~feature_pipeline_.live

Lifecycle ==
    {<<INITIALIZED, RUNNING>>, <<RUNNING, ENDPOINT>>, <<RUNNING, FINALIZED>>,
     <<ENDPOINT, RUNNING>>, <<FINALIZED, RUNNING>>}

\* C6 as stated: every change of the state tag is one of INITIALIZED ->
\* RUNNING, RUNNING -> ENDPOINT, RUNNING -> FINALIZED, ENDPOINT -> RUNNING,
\* FINALIZED -> RUNNING, for every operation, Reset included.
C6_Lifecycle ==
    [][status' = "alive"
         => (state_' = state_ \/ <<state_, state_'>> \in Lifecycle)]_vars

\* C6 amended: every change of the state tag follows the stated lifecycle,
\* except that Reset moves the session to ENDPOINT from any state.
C6_LifecycleWithReset ==
    [][status' = "alive"
         => \/ state_' = state_
            \/ <<state_, state_'>> \in Lifecycle
            \/ op'.name = "Reset" /\ state_' = ENDPOINT]_vars

\* Reset moved a finalized session to ENDPOINT.
C6_Witness ==
    /\ status = "alive"
    /\ op.name = "Reset"
    /\ state_ = ENDPOINT
    /\ ~decoder_.live
    /\ samples_processed_ > 0

\* C7 as stated: with a speaker model attached, a result of Result or
\* FinalResult carries a speaker block exactly when at least 50 non-silence
\* speaker frames were there for the extraction, in single-best and in
\* N-best mode.
C7_SpeakerBlock ==
    (/\ status = "alive"
     /\ op.name \in Extractions
     /\ spk_model_ # NoSpk
     /\ op.paths > 0)
       => (last_result_.spk <=> op.nonsil >= MIN_SPK_FEATS)

\* C7 amended: with a speaker model attached, a result of Result or
\* FinalResult carries a speaker block exactly when it is a single-best
\* result (max_alternatives == 0) and at least 50 non-silence speaker frames
\* were collected for it; an N-best result never carries one.
C7_SpeakerBlockSingleBest ==
    (status = "alive" /\ op.name \in Extractions)
       => /\ last_result_.spk
               <=> /\ spk_model_ # NoSpk
                   /\ last_result_.form = "text"
                   /\ op.nonsil >= MIN_SPK_FEATS
          /\ last_result_.spk => last_result_.spk_frames = op.nonsil

\* A single-best result with a speaker block.
C7_Witness ==
    /\ status = "alive"
    /\ op.name = "Result"
    /\ op.nonsil >= MIN_SPK_FEATS
    /\ last_result_.spk
    /\ last_result_.form = "text"

\* C8: a session releases exactly the references it acquired: while it is
\* alive the counts of its Model and of the attached SpeakerModel are
\* positive, and once it is destroyed every count is back at its value from
\* before the session was created.
C8_RefsBalanced ==
    /\ status = "alive"
         => /\ model_ref > 0
            /\ spk_model_ # NoSpk => spk_ref[spk_model_] > 0
    /\ status = "destroyed"
         => /\ model_ref = 0
            /\ \A s \in SpkModels : spk_ref[s] = 0

\* C9: SetSpkModel in RUNNING is rejected with an error and changes nothing
\* of the session; in any other state it attaches the model, takes a
\* reference on it and creates the speaker feature extractor.
C9_SetSpkModel ==
    [][(status = "alive" /\ op'.name = "SetSpkModel")
         => IF state_ = RUNNING
            THEN /\ ret'.kind = "error"
                 /\ UNCHANGED <<session, last_result_, accepts, wave>>
            ELSE /\ ret'.kind = "void"
                 /\ spk_model_' \in SpkModels
                 /\ spk_ref'[spk_model_'] = spk_ref[spk_model_'] + 1
                 /\ spk_feature_' = NewSpkFeature
                 /\ UNCHANGED <<state_, frame_offset_, samples_processed_,
                                samples_round_start_, decoder_,
                                feature_pipeline_>>]_vars

\* A SetSpkModel call was rejected in RUNNING.
C9_Witness ==
    /\ status = "alive"
    /\ op.name = "SetSpkModel"
    /\ ret.kind = "error"
    /\ state_ = RUNNING

\* C10: in N-best mode with K > 0 configured, the alternatives of a result
\* extracted from a lattice are at most K and at most the number of paths of
\* the lattice.
C10_NbestLength ==
    (/\ status = "alive"
     /\ op.name \in Extractions
     /\ max_alternatives_ > 0
     /\ op.paths > 0)
       => /\ last_result_.form = "alternatives"
          /\ Len(last_result_.alternatives) <= max_alternatives_
          /\ Len(last_result_.alternatives) <= op.paths

\* An N-best result cut to K entries out of a lattice with more paths.
C10_Witness ==
    /\ status = "alive"
    /\ op.name = "Result"
    /\ max_alternatives_ > 0
    /\ op.paths > max_alternatives_
    /\ Len(last_result_.alternatives) = max_alternatives_

\* The lattice of the last extraction.
LastLattice == CHOOSE l \in Lattices : NumPaths(l) = op.paths

\* C11: in N-best extraction a path whose alignment walk fails (an empty or
\* a non-linear path) is skipped: the alternatives are the entries of the
\* paths the walk succeeded on, in their order, and no entry is appended for
\* a path it failed on.
C11_FailedPathSkipped ==
    (/\ status = "alive"
     /\ op.name \in Extractions
     /\ max_alternatives_ > 0
     /\ op.paths > 0)
       => LET k == Min(max_alternatives_, op.paths)
              walked == SelectSeq([i \in 1..k |-> i],
                                  LAMBDA i : op.walk[i] = 0)
          IN last_result_.alternatives
               = [j \in 1..Len(walked) |->
                     NbestEntry(LastLattice[walked[j]], 0)]

\* C12: every constructor either builds the decoder on a graph that exists
\* (the precomputed graph of the Model or a graph composed for the session)
\* or fails with an error; the plain and the speaker-enabled variant fail
\* when the Model has neither the precomputed graph nor both halves, the
\* grammar variant never fails for an empty grammar or a missing half.
C12_GraphAvailable ==
    [][status = "unborn"
         => /\ \/ status' = "failed" /\ ret'.kind = "error"
               \/ /\ status' = "alive"
                  /\ decoder_'.live
                  /\ decoder_'.fst \in {"hclg_fst_", "decode_fst_"}
            /\ op'.name # GrammarVariant
                 => (status' = "failed"
                       <=> /\ ~model_.hclg_fst_
                           /\ ~(model_.hcl_fst_ /\ model_.g_fst_))
            /\ (op'.name = GrammarVariant /\ op'.arg # "nonstring")
                 => status' # "failed"]_vars

\* C13: the text of an N-best alternative is the text the single-best
\* extraction renders for the same words: the non-epsilon words of the path
\* joined by single separators, none leading and none trailing, wherever the
\* epsilon entries of the aligned path are.
C13_TextAgrees ==
    (/\ status = "alive"
     /\ op.name \in Extractions
     /\ max_alternatives_ > 0
     /\ op.paths > 0)
       => \A k \in 1..Len(last_result_.alternatives) :
             op.walk[k] = 0
               => LET best == OneBest(LastLattice[k])
                  IN last_result_.alternatives[k].text
                       = MbrText(best, Len(best))

RECURSIVE RunSamples(_)
RunSamples(runs) ==
    IF runs = <<>> THEN 0
    ELSE Head(runs)[1] * Head(runs)[2] + RunSamples(Tail(runs))

\* C14: AcceptWaveform, from any state and for any length n, 0 included,
\* runs CleanUp once first exactly when the state on entry is ENDPOINT or
\* FINALIZED, returns in RUNNING whatever the endpoint flag is, feeds the n
\* samples as ceil(n / step) chunks with step = floor(rate * 0.2), each of
\* step samples except possibly the last, advances the decoder once per
\* chunk, and adds n to samples_processed_.
C14_AcceptWaveform ==
    [][(status = "alive" /\ op'.name = "AcceptWaveform")
         => LET n == op'.arg
                step == (sample_frequency_ * 2) \div 10
                runs == op'.chunks
            IN /\ status' = "alive"
               /\ (op'.recycle # "none") <=> (state_ \in {ENDPOINT, FINALIZED})
               /\ state_' = RUNNING
               /\ ret'.kind = "bool"
               /\ RunCount(runs) = (n + step - 1) \div step
               /\ RunSamples(runs) = n
               /\ \A i \in 1..Len(runs) :
                     \/ runs[i][1] = step
                     \/ /\ i = Len(runs)
                        /\ runs[i][2] = 1
                        /\ runs[i][1] > 0 /\ runs[i][1] < step
               /\ op'.advances = RunCount(runs)
               /\ samples_processed_'
                    = (IF op'.recycle = "rebuild" THEN 0
                       ELSE samples_processed_) + n
               /\ samples_round_start_' + samples_processed_'
                    = samples_round_start_ + samples_processed_ + n]_vars

\* An empty waveform accepted by a finalized session: CleanUp ran, no chunk
\* was fed, and the session is RUNNING with an endpoint reported.
C14_Witness ==
    /\ status = "alive"
    /\ op.name = "AcceptWaveform"
    /\ op.arg = 0
    /\ op.recycle = "rebuild"
    /\ op.chunks = <<>>
    /\ state_ = RUNNING
    /\ samples_round_start_ > 0
    /\ ret.val

\* C15: Result in RUNNING moves the session to ENDPOINT and keeps the
\* pipeline, the decoder, frame_offset_, samples_processed_ and
\* samples_round_start_ as they are.  When AcceptWaveform comes next and
\* frame_offset_ plus the frames decoded does not exceed the ceiling, CleanUp
\* resumes: pipeline and decoder are kept, frame_offset_ grows by the frames
\* decoded, the decoder counts its frames from there again, and neither
\* sample counter is reset.
C15_ResultThenResume ==
    [][/\ (status = "alive" /\ state_ = RUNNING /\ op'.name = "Result"
             /\ status' = "alive")
            => /\ state_' = ENDPOINT
               /\ op'.finalize
               /\ UNCHANGED <<feature_pipeline_, decoder_, frame_offset_,
                              samples_processed_, samples_round_start_>>
       /\ (/\ status = "alive"
           /\ op.name = "Result" /\ op.finalize
           /\ op'.name = "AcceptWaveform"
           /\ frame_offset_ + decoder_.frames <= FrameCeiling)
            => /\ op'.recycle = "resume"
               /\ frame_offset_' = frame_offset_ + decoder_.frames
               /\ feature_pipeline_'.live
               /\ feature_pipeline_'.samples
                    = feature_pipeline_.samples + op'.arg
               /\ decoder_'.live
               /\ decoder_'.frames
                    = DecodableFrames(feature_pipeline_'.samples,
                                      sample_frequency_, frame_offset_')
               /\ samples_round_start_' = samples_round_start_
               /\ samples_processed_' = samples_processed_ + op'.arg]_vars

\* Audio accepted after a Result went into the pipeline and the decoder of
\* the audio before it.
C15_Witness ==
    /\ status = "alive"
    /\ op.name = "AcceptWaveform"
    /\ op.recycle = "resume"
    /\ op.arg > 0
    /\ frame_offset_ > 0
    /\ decoder_.frames > 0
    /\ feature_pipeline_.samples > op.arg
    /\ samples_processed_ = feature_pipeline_.samples

\* Frames of the longest waveform one AcceptWaveform call is handed.
LongestBufferFrames ==
    LET longest == CHOOSE n \in WaveLens : \A m \in WaveLens : m <= n
    IN DecodableFrames(longest, sample_frequency_, 0) + 1

TimeBase == AbsTime(0)

\* C17: the time base of the word timestamps never decreases along a
\* session, across suspend-resume and hard-rebuild recycles, the decoder
\* never having decoded more frames than the audio accepted since the last
\* rebuild holds.
C17_TimeBaseMonotone ==
    /\ [](status = "alive" /\ decoder_.live
            => FramesSinceReset * FrameSubsampling * (sample_frequency_ \div 100)
                 <= samples_processed_)
    /\ [][status' = "alive" => TimeBase' >= TimeBase]_vars

\* A result asked for after a suspend-resume recycle that followed a hard
\* rebuild: both counters of the time base have moved.
C17_Witness ==
    /\ status = "alive"
    /\ op.name = "Result"
    /\ op.paths > 0
    /\ samples_round_start_ > 0
    /\ frame_offset_ > 0

\* C18: Reset, from any state, leaves the session in ENDPOINT with the
\* canonical empty payload of the alternatives mode as the stored result; it
\* finalizes decoding exactly when the state was RUNNING, never on a decoder
\* that does not exist, and leaves frame_offset_, samples_processed_,
\* samples_round_start_, the pipeline and the decoder as they are.  From
\* then to the next AcceptWaveform, PartialResult, Result and FinalResult
\* return the canonical empty payload.
C18_Reset ==
    [][/\ (status = "alive" /\ op'.name = "Reset")
            => /\ state_' = ENDPOINT
               /\ last_result_' = (IF max_alternatives_ = 0 THEN EmptySingle
                                   ELSE EmptyNbest)
               /\ op'.finalize <=> state_ = RUNNING
               /\ op'.finalize => decoder_.live
               /\ UNCHANGED <<frame_offset_, samples_processed_,
                              samples_round_start_, feature_pipeline_,
                              decoder_, max_alternatives_>>
       /\ (status = "alive" /\ op.name = "Reset"
             /\ op'.name \in ResultCalls)
            => /\ ret'.kind = "last_result_"
               /\ last_result_' = (IF max_alternatives_ = 0 THEN EmptySingle
                                   ELSE EmptyNbest)
               /\ state_' = ENDPOINT
       /\ (status = "alive" /\ state_ = ENDPOINT /\ state_' # ENDPOINT)
            => op'.name \in {"AcceptWaveform", "~KaldiRecognizer"}]_vars

\* Reset of a running session in N-best mode that had decoded audio: the
\* stored result is the canonical empty payload of that mode.
C18_Witness ==
    /\ status = "alive"
    /\ op.name = "Reset"
    /\ op.finalize
    /\ state_ = ENDPOINT
    /\ decoder_.frames > 0
    /\ last_result_ = EmptyNbest

\* C19: PartialResult in RUNNING returns a payload of the partial form,
\* with no result list, no alternatives and no speaker block, whose text is
\* empty when no frame has been decoded, and changes nothing but the stored
\* result: the state stays RUNNING and the counters, the pipeline and the
\* decoder are as before, so that the results asked for later are the same
\* with or without it.
C19_PartialResult ==
    [][(status = "alive" /\ state_ = RUNNING /\ op'.name = "PartialResult")
         => /\ ret'.kind = "last_result_"
            /\ last_result_'.form = "partial"
            /\ last_result_'.result = <<>>
            /\ last_result_'.alternatives = <<>>
            /\ ~last_result_'.spk
            /\ decoder_.frames = 0 => last_result_'.text = <<>>
            /\ state_' = RUNNING
            /\ UNCHANGED <<session, accepts, wave>>]_vars

\* A partial result with words in it, of a session in N-best mode.
C19_Witness ==
    /\ status = "alive"
    /\ op.name = "PartialResult"
    /\ state_ = RUNNING
    /\ max_alternatives_ > 0
    /\ decoder_.frames > 0
    /\ last_result_.form = "partial"
    /\ last_result_.text # <<>>

\* C20 as stated: the endpoint policy is looked at after every chunk, and
\* AcceptWaveform returns true whenever it reported an endpoint at a chunk
\* boundary of the buffer, false only when it reported none.
C20_EndpointPerChunk ==
    (status = "alive" /\ op.name = "AcceptWaveform" /\ op.advances > 0)
       => (ret.val <=> (op.policy.mid \/ op.policy.last))

\* C20 amended: the endpoint policy is asked once per AcceptWaveform call,
\* after the last chunk of the buffer was decoded (for an empty buffer too),
\* and the call returns what it says then; an endpoint it would have
\* reported at an earlier chunk boundary of the buffer is not returned.
C20_EndpointPerBuffer ==
    (status = "alive" /\ op.name = "AcceptWaveform")
       => /\ ret.kind = "bool"
          /\ ret.val <=> op.policy.last
          /\ op.policy.mid => op.advances >= 2

\* An endpoint in the middle of a buffer that the call did not report.
C20_Witness ==
    /\ status = "alive"
    /\ op.name = "AcceptWaveform"
    /\ op.advances >= 2
    /\ op.policy.mid
    /\ ~op.policy.last
    /\ ~ret.val

\* C21: a speaker extraction with at least MIN_SPK_FEATS non-silence frames
\* completes and attaches the speaker block when the transform is linear or
\* affine, every matrix-vector product on operands of matching dimensions;
\* for any other column count the extraction fails and no speaker block is
\* produced.
C21_TransformShapes ==
    (op.name \in Extractions /\ op.nonsil >= MIN_SPK_FEATS
        /\ max_alternatives_ = 0)
       => IF spk_transform \in {"linear", "affine"}
          THEN /\ status = "alive"
               /\ ret.kind = "last_result_"
               /\ last_result_.spk
               /\ last_result_.spk_frames = op.nonsil
               /\ WhiteningOperandsMatch
               /\ PldaOperandsMatch
          ELSE /\ ret.kind \in {"throw", "abort"}
               /\ ~last_result_.spk

\* The enrolled speakers PldaScoring scores: the ids with a prototype.
Scored == spk_enrolment.num_utts \cap spk_enrolment.train_ivectors

\* C22: a speaker block holds exactly one score for every enrolled speaker
\* with a stored prototype, all computed for this result; the scores are not
\* empty when the best one is picked, so the pick never ends the process;
\* and the score buffer of the session is empty once the result is built.
C22_ScoresPerResult ==
    (op.name \in Extractions /\ op.nonsil >= MIN_SPK_FEATS
        /\ max_alternatives_ = 0)
       => /\ status = "alive"
          /\ last_result_.spk
          /\ {x.speaker : x \in last_result_.scores} = Scored
          /\ Cardinality(last_result_.scores) = Cardinality(Scored)
          /\ \A x \in last_result_.scores :
                x.score = LogLikelihoodRatio(x.speaker, last_result_.spk_frames)
          /\ last_result_.scores # {}
          /\ scores_ = {}

\* Samples the session accounts for: those of the rounds closed by a hard
\* rebuild and those of the round under way.
SamplesAccounted == samples_round_start_ + samples_processed_

\* C23: samples_round_start_ + samples_processed_ is the number of samples
\* accepted since construction: it is zero after construction, every
\* AcceptWaveform adds the length of its buffer to it and no other call
\* changes it; a hard rebuild moves samples_processed_ into
\* samples_round_start_ and zeroes samples_processed_ and frame_offset_
\* before the buffer is counted; nothing else changes samples_round_start_.
C23_SampleConservation ==
    /\ (status = "alive" /\ op.name = "KaldiRecognizer")
          => SamplesAccounted = 0
    /\ [][status' = "alive" =>
            /\ SamplesAccounted' =
                  SamplesAccounted
                    + (IF op'.name = "AcceptWaveform" THEN op'.arg ELSE 0)
            /\ (op'.name = "AcceptWaveform" /\ op'.recycle = "rebuild")
                  => /\ samples_round_start_' =
                          samples_round_start_ + samples_processed_
                     /\ samples_processed_' = op'.arg
                     /\ frame_offset_' = 0
            /\ samples_round_start_' # samples_round_start_
                  => (op'.name = "AcceptWaveform" /\ op'.recycle = "rebuild")
         ]_vars

\* A hard rebuild that closed a round with samples in it, with samples of
\* the new buffer counted on top.
C23_Witness ==
    /\ status = "alive"
    /\ op.name = "AcceptWaveform"
    /\ op.recycle = "rebuild"
    /\ samples_round_start_ > 0
    /\ samples_processed_ > 0
    /\ frame_offset_ = 0

\* C24: whenever GetSpkVector runs (an extraction of the single-best result
\* of a session with a speaker model, over a decoder that decoded frames),
\* the speaker-feature stream holds at least frame_offset_ * 3 frames, so
\* the window it walks has no negative length and every frame it reads is
\* there.
C24_SpkWindowInRange ==
    [][(/\ op'.name \in Extractions
        /\ op'.nonsil # -1
        /\ spk_model_ # NoSpk
        /\ max_alternatives_ = 0)
          => /\ FeatFramesReady(spk_feature_.samples, sample_frequency_)
                  >= frame_offset_ * FrameSubsampling
             /\ SpkNumFrames(spk_feature_, frame_offset_) >= 0
             /\ \A i \in {0, SpkNumFrames(spk_feature_, frame_offset_) - 1} :
                   (0 <= i /\ i < SpkNumFrames(spk_feature_, frame_offset_))
                     => i + frame_offset_ * FrameSubsampling
                          < FeatFramesReady(spk_feature_.samples,
                                            sample_frequency_)
      ]_vars

\* C25: every call of AcceptWaveform returns: once the call is under way,
\* its chunking loop comes to an end and the call is left.
C25_AcceptWaveformTerminates == (pc.at # "idle") ~> (pc.at = "idle")

====
